---- MODULE Spec2Model ----
(***************************************************************************)
(* Model of the AI Cosmetic Formulator web client (App.jsx, api.js,        *)
(* InputPrompt.jsx, DetailHistory.jsx, Login.jsx, RecommendResult.jsx,     *)
(* ErrorModal.jsx) together with the history service it talks to.          *)
(*                                                                         *)
(* JavaScript values are encoded homogeneously:                            *)
(*   - a string-valued field is a TLA+ string; the two values `undefined`  *)
(*     (key missing) and `null` are the reserved strings Undef and Null;   *)
(*   - a list-valued field is a record [k, items], k in undef/null/list;   *)
(*   - a properties field is a record [k, s, entries], k in                *)
(*     undef/null/str/obj;                                                 *)
(*   - an object that may be null is a sequence of length 0 or 1.          *)
(***************************************************************************)
EXTENDS Integers, Sequences, FiniteSets, Bags, TLC

----------------------------------------------------------------------------
(* JavaScript values and the || operator                                   *)

Undef == "<undefined>"
Null == "<null>"

\* Truthiness of a string-valued field: undefined, null and "" are falsy.
Truthy(v) == v \notin {Undef, Null, ""}

\* a || b on string-valued fields.
Or(a, b) == IF Truthy(a) THEN a ELSE b

\* A list-valued field: missing, null, or an array (an empty array is truthy).
UndefList == [k |-> "undef", items |-> <<>>]
NullList == [k |-> "null", items |-> <<>>]
List(items) == [k |-> "list", items |-> items]
TruthyList(l) == l.k = "list"
OrList(a, b) == IF TruthyList(a) THEN a ELSE b

\* A properties field: missing, null, a string, or an object given by its
\* entries in insertion order (Object.entries).
UndefProps == [k |-> "undef", s |-> "", entries |-> <<>>]
NullProps == [k |-> "null", s |-> "", entries |-> <<>>]
StrProps(s) == [k |-> "str", s |-> s, entries |-> <<>>]
ObjProps(entries) == [k |-> "obj", s |-> "", entries |-> entries]
TruthyProps(p) == p.k = "obj" \/ (p.k = "str" /\ p.s # "")
OrProps(a, b) == IF TruthyProps(a) THEN a ELSE b

\* Array.prototype.join(" | ") over the mapped entries of formatProperties.
RECURSIVE JoinEntries(_)
JoinEntries(es) ==
    IF es = <<>> THEN ""
    ELSE LET e == Head(es)
             piece == e.key \o ": " \o (IF e.val \in {Null, Undef} THEN "-" ELSE e.val)
         IN IF Len(es) = 1 THEN piece
            ELSE piece \o " | " \o JoinEntries(Tail(es))

formatProperties(props) ==
    IF ~TruthyProps(props) THEN "-"
    ELSE IF props.k = "str" THEN props.s
    ELSE JoinEntries(props.entries)

----------------------------------------------------------------------------
(* Raw payloads                                                            *)

\* The formulation object carried under `data` or `output_data`.
EmptyCore ==
    [nama_senyawa |-> Undef, name |-> Undef, formula |-> Undef, smiles |-> Undef,
     description |-> Undef, justifikasi |-> Undef, dosage |-> Undef,
     contraindications |-> UndefList, safety_notes |-> Undef,
     usage_guidelines |-> Undef, sifat_kimia |-> UndefProps,
     properties |-> UndefProps,
     recommendations |-> [k |-> "undef", items |-> <<>>]]

\* One alternative of the raw payload.
EmptyRec ==
    [name |-> Undef, nama_senyawa |-> Undef, formula |-> Undef, smiles |-> Undef,
     justification |-> Undef, description |-> Undef, properties |-> UndefProps,
     sifat_kimia |-> UndefProps, pros |-> UndefList, cons |-> UndefList,
     price_range |-> Undef]

\* `data` / `output_data` of a raw response: missing, null or an object.
NoObj == [k |-> "undef", f |-> EmptyCore]
NullObj == [k |-> "null", f |-> EmptyCore]
Obj(core) == [k |-> "obj", f |-> core]

\* A raw response or history item. Ids are positive; 0 stands for a missing id.
RawData(success, message, id, history_id, created_at, data, output_data) ==
    [success |-> success, message |-> message, id |-> id, history_id |-> history_id,
     conversation_id |-> Undef, created_at |-> created_at,
     data |-> data, output_data |-> output_data]

----------------------------------------------------------------------------
(* adaptResponse                                                           *)

\* core mutant: only rawData.data is looked at.
CoreOfDataOnly(rawData) ==
    IF rawData.data.k = "obj" THEN rawData.data.f ELSE EmptyCore

\* rawData.output_data || rawData.data || {}
CoreOf(rawData) ==
    IF rawData.output_data.k = "obj" THEN rawData.output_data.f
    ELSE IF rawData.data.k = "obj" THEN rawData.data.f
    ELSE EmptyCore

\* a || b on ids (0 is falsy).
OrId(a, b) == IF a # 0 THEN a ELSE b

\* toLocaleDateString / toLocaleTimeString of created_at, kept symbolic.
FormatDate(created_at) == IF Truthy(created_at) THEN "date:" \o created_at ELSE Null
FormatTime(created_at) == IF Truthy(created_at) THEN "time:" \o created_at ELSE Null

AdaptRec(rec) ==
    [name |-> Or(Or(rec.name, rec.nama_senyawa), "Varian Alternatif"),
     formula |-> Or(rec.formula, "-"),
     smiles |-> Or(rec.smiles, "-"),
     justification |-> Or(Or(rec.justification, rec.description), "-"),
     properties |-> formatProperties(OrProps(rec.properties, rec.sifat_kimia)),
     pros |-> OrList(rec.pros, List(<<>>)),
     cons |-> OrList(rec.cons, List(<<>>)),
     priceRange |-> Or(rec.price_range, "N/A")]

\* predictionData mutant: the optional hero fields are copied without default.
PredictionDataNoSentinel(core) ==
    [name |-> Or(Or(core.nama_senyawa, core.name), "Senyawa Tidak Dikenal"),
     formula |-> Or(core.formula, "-"),
     smiles |-> Or(core.smiles, "-"),
     description |-> Or(Or(core.description, core.justifikasi),
                        "Tidak ada deskripsi tersedia."),
     dosage |-> core.dosage,
     contraindications |-> OrList(core.contraindications, List(<<>>)),
     safetyNotes |-> core.safety_notes,
     usageGuidelines |-> core.usage_guidelines,
     properties |-> formatProperties(OrProps(core.sifat_kimia, core.properties))]

PredictionData(core) ==
    [name |-> Or(Or(core.nama_senyawa, core.name), "Senyawa Tidak Dikenal"),
     formula |-> Or(core.formula, "-"),
     smiles |-> Or(core.smiles, "-"),
     description |-> Or(Or(core.description, core.justifikasi),
                        "Tidak ada deskripsi tersedia."),
     dosage |-> Or(core.dosage, "N/A - Data Agent 3 Kosong"),
     contraindications |-> OrList(core.contraindications, List(<<>>)),
     safetyNotes |-> Or(core.safety_notes, "-"),
     usageGuidelines |-> Or(core.usage_guidelines, "N/A"),
     properties |-> formatProperties(OrProps(core.sifat_kimia, core.properties))]

\* map mutant: the alternatives come out in reverse order.
AdaptRecsReversed(recs) ==
    IF recs.k = "list"
    THEN [i \in 1..Len(recs.items) |-> AdaptRec(recs.items[Len(recs.items) + 1 - i])]
    ELSE <<>>

\* (core.recommendations || []).map(...)
AdaptRecs(recs) ==
    IF recs.k = "list" THEN [i \in 1..Len(recs.items) |-> AdaptRec(recs.items[i])]
    ELSE <<>>

\* The adapted result. `prediction` is an object that may be null for the
\* components that read it, hence a sequence of length 0 or 1.
adaptResponse(rawData) ==
    LET core == CoreOf(rawData)
    IN [id |-> OrId(rawData.id, rawData.history_id),
        historyId |-> OrId(rawData.history_id, rawData.id),
        conversationId |-> Or(rawData.conversation_id, Null),
        date |-> FormatDate(rawData.created_at),
        time |-> FormatTime(rawData.created_at),
        recommendations |-> AdaptRecs(core.recommendations),
        prediction |-> <<PredictionData(core)>>]

----------------------------------------------------------------------------
(* Texts: a text is a sequence of fragments, so that String.includes can   *)
(* be evaluated.                                                           *)

Includes(text, needle) == \E i \in 1..Len(text) : text[i] = needle

MsgGeneric ==
    <<"Gagal memproses permintaan. Mungkin server sedang sibuk atau prompt Anda tidak valid.">>
MsgRateLimit ==
    <<"**", "AI Sibuk", " (", "Rate Limit", "):** Permintaan terlalu banyak. ",
      "Sistem Agentic AI perlu beristirahat sejenak. ",
      "Silakan coba lagi dalam 1-2 menit.">>
MsgSession == <<"Sesi habis. Silakan Login kembali.">>
MsgServer ==
    <<"Terjadi kesalahan pada server (5xx). ",
      "Tim kami akan segera memperbaikinya. Coba lagi sebentar.">>

----------------------------------------------------------------------------
(* Bounds and sample data                                                  *)

\* Ids the history service can hand out.
MaxId == 1
\* Requests and login timers pending at once, over all endpoints.
MaxInFlight == 2
\* Pipeline runs of the backend followed at once.
MaxRuns == 2

Users == {"u1", "u2"}
NoToken == "none"
Ids == 1..MaxId

\* What the user can type into the prompt field, as character sequences.
Prompts == {<<>>, <<" ", "\n">>, <<" ", "C", " ">>}

IsSpace(c) == c \in {" ", "\n", "\t"}

\* String.prototype.trim
RECURSIVE TrimLeft(_)
TrimLeft(s) == IF s # <<>> /\ IsSpace(Head(s)) THEN TrimLeft(Tail(s)) ELSE s
RECURSIVE TrimRight(_)
TrimRight(s) ==
    IF s # <<>> /\ IsSpace(s[Len(s)]) THEN TrimRight(SubSeq(s, 1, Len(s) - 1)) ELSE s
Trim(s) == TrimRight(TrimLeft(s))

\* Formulation payloads the service can answer with.
Alt1 ==
    [EmptyRec EXCEPT !.name = "Ascorbyl Glucoside", !.formula = "C12H18O11",
                     !.justification = "water soluble",
                     !.properties = ObjProps(<<[key |-> "pH", val |-> "6"],
                                               [key |-> "logP", val |-> Null]>>)]
HeroCore ==
    [EmptyCore EXCEPT !.nama_senyawa = "3-O-Ethyl Ascorbic Acid",
                      !.formula = "C11H18O6",
                      !.dosage = "1-2%",
                      !.contraindications = List(<<"pregnancy">>),
                      !.recommendations = [k |-> "list", items |-> <<Alt1>>]]
CoreSamples == {HeroCore}

CreatedAt == "2025-12-01T10:00:00"

----------------------------------------------------------------------------
(* State                                                                   *)

VARIABLES
    token,          \* localStorage 'token': NoToken or the user it authenticates
    lsUsername,     \* localStorage 'username': NoToken or a user's name
    isLoggedIn,     \* App state
    isLanding,      \* App state
    currentResult,  \* App state: <<>> (null) or <<adapted result>>
    historyList,    \* App state: sequence of adapted history items
    isDeleting,     \* App state
    route,          \* location.pathname, with "/history/:id" for a detail page
    routeId,        \* the :id parameter of a detail page, 0 elsewhere
    prompt,         \* InputPrompt state
    isLoading,      \* InputPrompt state
    showError,      \* InputPrompt state
    errorMessage,   \* InputPrompt state: a text
    earlyReturn,    \* handleFind returned at its first line for the current prompt
    showConfirm,    \* DetailHistory state
    loginLoading,   \* Login state isLoading
    loginError,     \* Login state showError
    loginReqs,      \* auth/login requests in flight (bag)
    loginTimers,    \* pending setTimeout(..., 3000) callbacks of handleLogin
    analyzeReqs,    \* analyze requests in flight (bag)
    historyReqs,    \* history fetches in flight (bag)
    deleteReqs,     \* history/{id} DELETE requests in flight (bag)
    entries,        \* the history service: id -> [st, owner, core]
    endpoint,       \* the analyze endpoint: "normal" or "rateLimited" (always 429)
    call,           \* a pure function applied on its own: [fn, arg]
    ret,            \* its result: <<>> before the call, <<value>> after
    runs            \* the pipeline runs of the backend: run -> [stage, retried, failure]

appVars == <<isLoggedIn, isLanding, currentResult, historyList, isDeleting>>
storageVars == <<token, lsUsername>>
routeVars == <<route, routeId>>
promptVars == <<prompt, isLoading, showError, errorMessage, earlyReturn>>
loginVars == <<loginLoading, loginError>>
netVars == <<loginReqs, loginTimers, analyzeReqs, historyReqs, deleteReqs>>
fixVars == <<endpoint, call, ret, runs>>
vars == <<token, lsUsername, isLoggedIn, isLanding, currentResult,
          historyList, isDeleting, route, routeId, prompt, isLoading, showError,
          errorMessage, earlyReturn, showConfirm, loginLoading, loginError,
          loginReqs, loginTimers, analyzeReqs, historyReqs, deleteReqs, entries,
          endpoint, call, ret, runs>>

----------------------------------------------------------------------------
(* Bags of requests                                                        *)

BagAdd(b, r) == b (+) SetToBag({r})
BagRemove(b, r) == b (-) SetToBag({r})
BagReplace(b, r, r2) == BagAdd(BagRemove(b, r), r2)

RECURSIVE SumCopies(_, _)
SumCopies(S, b) ==
    IF S = {} THEN 0
    ELSE LET r == CHOOSE x \in S : TRUE IN CopiesIn(r, b) + SumCopies(S \ {r}, b)

\* The number of requests of the bag in state st.
CountSt(b, st) == SumCopies({r \in BagToSet(b) : r.st = st}, b)

\* Requests and timers pending over all endpoints.
InFlight ==
    BagCardinality(loginReqs) + loginTimers + BagCardinality(analyzeReqs)
    + BagCardinality(historyReqs) + BagCardinality(deleteReqs)

\* The requests of a bag once their component instance is unmounted.
Unmount(r) == [r EXCEPT !.mounted = FALSE]
UnmountAll(b) ==
    LET img == {Unmount(r) : r \in BagToSet(b)}
    IN [x \in img |-> SumCopies({r \in BagToSet(b) : Unmount(r) = x}, b)]

----------------------------------------------------------------------------
(* Routing and component mounting                                          *)

LoginRoute == "/login"
RegisterRoute == "/register"
HomeRoute == "/"
ResultRoute == "/result"
HistoryRoute == "/history"
DetailRoute == "/history/:id"

IsAuthPage(r) == r \in {LoginRoute, RegisterRoute}

\* Route table mutant: every path renders its page, without any redirect.
GuardNone(r, loggedIn, result) == r

\* The element <Routes> renders for a path: the <Navigate> redirects of the
\* route table are followed.
Guard(r, loggedIn, result) ==
    IF IsAuthPage(r) THEN (IF ~loggedIn THEN r ELSE HomeRoute)
    ELSE IF ~loggedIn THEN LoginRoute
    ELSE IF r = ResultRoute /\ result = <<>> THEN HomeRoute
    ELSE r

\* find mutant: the first entry of the list is taken whatever its id.
FindItemFirst(list, id) == IF Len(list) > 0 THEN <<list[1]>> ELSE <<>>

\* historyList.find(h => h.id?.toString() === id): <<>> or <<item>>.
FindItem(list, id) ==
    IF \E i \in 1..Len(list) : list[i].id = id /\ id # 0
    THEN <<list[CHOOSE i \in 1..Len(list) :
                    /\ list[i].id = id
                    /\ \A j \in 1..(i - 1) : list[j].id # id]>>
    ELSE <<>>

\* What HistoryWrapper and DetailHistory render for /history/:id.
HistoryWrapper(list, id) ==
    LET item == FindItem(list, id)
    IN IF item = <<>> /\ Len(list) > 0 THEN [view |-> "404", data |-> <<>>]
       ELSE IF item = <<>> THEN [view |-> "Data not found", data |-> <<>>]
       ELSE [view |-> "detail", data |-> item]

\* Whether a DetailHistory component instance is mounted.
DetailMounted(r, id, list) == r = DetailRoute /\ HistoryWrapper(list, id).view # "404"

\* navigate(target) followed by the render of the route table.
SetRoute(target, id) ==
    /\ route' = Guard(target, isLoggedIn', currentResult')
    /\ routeId' = IF route' = DetailRoute THEN id ELSE 0

\* A request that will never be answered has no effect once its page is
\* unmounted and is dropped.
DropHung(b) == [r \in {x \in BagToSet(b) : x.st # "hung"} |-> b[r]]

\* InputPrompt's state after a step: the given values while the same instance
\* stays mounted, the initial useState values once it is unmounted; the
\* requests of an unmounted instance no longer reach any component state.
PromptState(p, l, se, em, er, reqs) ==
    IF route = HomeRoute /\ route' = HomeRoute
    THEN /\ prompt' = p /\ isLoading' = l /\ showError' = se /\ errorMessage' = em
         /\ earlyReturn' = er
         /\ analyzeReqs' = reqs
    ELSE /\ prompt' = <<>> /\ isLoading' = FALSE /\ showError' = FALSE
         /\ errorMessage' = <<>> /\ earlyReturn' = FALSE
         /\ analyzeReqs' = UnmountAll(DropHung(reqs))

\* DetailHistory's state after a step.
ConfirmState(sc) ==
    showConfirm' = IF /\ DetailMounted(route, routeId, historyList)
                      /\ DetailMounted(route', routeId', historyList')
                   THEN sc ELSE FALSE

\* Login's state after a step.
LoginState(ll, le, reqs) ==
    IF route = LoginRoute /\ route' = LoginRoute
    THEN loginLoading' = ll /\ loginError' = le /\ loginReqs' = reqs
    ELSE loginLoading' = FALSE /\ loginError' = FALSE /\ loginReqs' = UnmountAll(reqs)

KeepPrompt ==
    PromptState(prompt, isLoading, showError, errorMessage, earlyReturn, analyzeReqs)
KeepConfirm == ConfirmState(showConfirm)
KeepLogin == LoginState(loginLoading, loginError, loginReqs)

----------------------------------------------------------------------------
(* Initial state: first visit, empty localStorage, "/" redirected to /login *)

FreeEntry == [st |-> "free", owner |-> NoToken, core |-> EmptyCore]
NoCall == [fn |-> "none"]

\* A pipeline run nobody has asked for yet.
Runs == 1..MaxRuns
NewRun == [stage |-> "NotStarted", retried |-> FALSE, failure |-> "none"]

ClientInit ==
    /\ token = NoToken /\ lsUsername = NoToken
    /\ isLoggedIn = FALSE /\ isLanding = TRUE
    /\ currentResult = <<>> /\ historyList = <<>> /\ isDeleting = FALSE
    /\ route = LoginRoute /\ routeId = 0
    /\ prompt = <<>> /\ isLoading = FALSE /\ showError = FALSE /\ errorMessage = <<>>
    /\ earlyReturn = FALSE
    /\ showConfirm = FALSE
    /\ loginLoading = FALSE /\ loginError = FALSE
    /\ loginReqs = EmptyBag /\ loginTimers = 0
    /\ analyzeReqs = EmptyBag /\ historyReqs = EmptyBag /\ deleteReqs = EmptyBag
    /\ entries = [i \in Ids |-> FreeEntry]

Init ==
    /\ ClientInit
    /\ endpoint \in {"normal", "rateLimited"}
    /\ call = NoCall /\ ret = <<>>
    /\ runs = [r \in Runs |-> NewRun]

----------------------------------------------------------------------------
(* api.js: interceptors                                                    *)

\* axios.create is given no timeout: axios keeps its default of 0, which
\* disables the timer that would reject an unanswered request.
AxiosTimeout == 0

\* The paths given to axios, as path segments and separators.
AnalyzeUrl == <<"analyze">>
HistoryUrl == <<"history">>
DeleteUrl == <<"history", "/", ":id">>
LoginUrl == <<"auth", "/", "login">>

\* url.includes("/auth/")
UrlIncludesAuth(url) ==
    \E i \in 1..(Len(url) - 2) : url[i] = "/" /\ url[i + 1] = "auth" /\ url[i + 2] = "/"

\* Request interceptor: the Authorization header a request leaves with
\* (NoToken when localStorage holds no token).
AuthHeader == token

\* Response interceptor on a rejected request (status 0: no response): the
\* token left in localStorage.
TokenAfterError(status, url) ==
    IF status = 401 /\ ~UrlIncludesAuth(url) THEN NoToken ELSE token

\* fetchHistory up to its await: GET history leaves with the current token.
FetchRequest(origin) ==
    [tok |-> AuthHeader, origin |-> origin, st |-> "sent", list |-> <<>>]

----------------------------------------------------------------------------
(* Login.jsx                                                               *)

\* handleLogin with an invalid or empty form.
handleLoginInvalid ==
    /\ route = LoginRoute /\ ~loginLoading
    /\ loginError' = TRUE
    /\ UNCHANGED <<storageVars, appVars, routeVars, promptVars, showConfirm,
                   loginLoading, netVars, entries, fixVars>>

\* handleLogin up to its await: POST auth/login.
handleLogin(cred) ==
    /\ route = LoginRoute /\ ~loginLoading
    /\ InFlight < MaxInFlight
    /\ loginLoading' = TRUE
    /\ loginReqs' = BagAdd(loginReqs, [cred |-> cred, mounted |-> TRUE])
    /\ UNCHANGED <<storageVars, appVars, routeVars, promptVars, showConfirm,
                   loginError, loginTimers, analyzeReqs, historyReqs, deleteReqs,
                   entries, fixVars>>

\* handleLogin after a successful answer: token and username stored, the
\* 3-second timer started, isLoading cleared.
LoginSucceeds(r) ==
    /\ r \in BagToSet(loginReqs) /\ r.cred \in Users
    /\ token' = r.cred /\ lsUsername' = r.cred
    /\ loginTimers' = loginTimers + 1
    /\ loginReqs' = BagRemove(loginReqs, r)
    /\ loginLoading' = IF r.mounted THEN FALSE ELSE loginLoading
    /\ UNCHANGED <<appVars, routeVars, promptVars, showConfirm, loginError,
                   analyzeReqs, historyReqs, deleteReqs, entries, fixVars>>

\* handleLogin after a rejected request: status 401 for wrong credentials,
\* 0 for a request that got no response.
LoginFails(r, status) ==
    /\ r \in BagToSet(loginReqs)
    /\ status = 401 => r.cred \notin Users
    /\ token' = TokenAfterError(status, LoginUrl)
    /\ loginReqs' = BagRemove(loginReqs, r)
    /\ loginLoading' = IF r.mounted THEN FALSE ELSE loginLoading
    /\ loginError' = IF r.mounted THEN TRUE ELSE loginError
    /\ UNCHANGED <<lsUsername, appVars, routeVars, promptVars, showConfirm,
                   loginTimers, analyzeReqs, historyReqs, deleteReqs, entries,
                   fixVars>>

\* ErrorModal onClose on the login page.
LoginCloseError ==
    /\ route = LoginRoute /\ loginError
    /\ loginError' = FALSE
    /\ UNCHANGED <<storageVars, appVars, routeVars, promptVars, showConfirm,
                   loginLoading, netVars, entries, fixVars>>

\* The 3-second timer of handleLogin fires: onLoginClick = handleLoginSuccess,
\* and the isLoggedIn effect starts fetchHistory when isLoggedIn became true.
handleLoginSuccess ==
    /\ loginTimers > 0
    /\ loginTimers' = loginTimers - 1
    /\ isLoggedIn' = TRUE
    /\ historyReqs' = IF isLoggedIn THEN historyReqs
                      ELSE BagAdd(historyReqs, FetchRequest("fetch"))
    /\ UNCHANGED <<storageVars, isLanding, currentResult, historyList, isDeleting,
                   deleteReqs, entries, fixVars>>
    /\ SetRoute(HomeRoute, 0)
    /\ KeepPrompt /\ KeepConfirm /\ KeepLogin

\* The '>' trigger on the login and register pages.
ToggleLanding ==
    /\ IsAuthPage(route)
    /\ isLanding' = ~isLanding
    /\ UNCHANGED <<storageVars, isLoggedIn, currentResult, historyList,
                   isDeleting, routeVars, promptVars, showConfirm, loginVars,
                   netVars, entries, fixVars>>

----------------------------------------------------------------------------
(* App.jsx: logout and navigation                                          *)

\* The App and localStorage state handleLogout leaves behind (the token is
\* removed by the caller's own conjunct).
\* handleLogout mutant: setIsLanding(true) is left out.
LogoutEffectsKeepLanding ==
    /\ lsUsername' = NoToken
    /\ isLoggedIn' = FALSE
    /\ UNCHANGED isLanding

LogoutEffects ==
    /\ lsUsername' = NoToken
    /\ isLoggedIn' = FALSE
    /\ isLanding' = TRUE

\* Header: Log Out.
handleLogout ==
    /\ isLoggedIn /\ ~IsAuthPage(route)
    /\ token' = NoToken
    /\ LogoutEffects
    /\ UNCHANGED <<currentResult, historyList, isDeleting, loginTimers,
                   historyReqs, deleteReqs, entries, fixVars>>
    /\ SetRoute(LoginRoute, 0)
    /\ KeepPrompt /\ KeepConfirm /\ KeepLogin

\* The navigate() calls offered by the current page: header Home / History
\* (the onBack buttons lead to the same two paths), HistoryLog onItemClick,
\* onSwitchToRegister / onSwitchToLogin.
NavTargets ==
    (IF isLoggedIn /\ ~IsAuthPage(route)
     THEN {[to |-> HomeRoute, id |-> 0], [to |-> HistoryRoute, id |-> 0]} ELSE {})
    \cup (IF route = HistoryRoute
          THEN {[to |-> DetailRoute, id |-> historyList[i].id] : i \in 1..Len(historyList)}
          ELSE {})
    \cup (IF route = LoginRoute THEN {[to |-> RegisterRoute, id |-> 0]} ELSE {})
    \cup (IF route = RegisterRoute THEN {[to |-> LoginRoute, id |-> 0]} ELSE {})

Navigate(t) ==
    /\ t \in NavTargets
    /\ <<t.to, t.id>> # <<route, routeId>>
    /\ UNCHANGED <<storageVars, appVars, loginTimers, historyReqs, deleteReqs,
                   entries, fixVars>>
    /\ SetRoute(t.to, t.id)
    /\ KeepPrompt /\ KeepConfirm /\ KeepLogin

----------------------------------------------------------------------------
(* Errors a request can be rejected with                                   *)

\* error.response.data.detail: missing, a text, or an object without includes.
NoDetail == [k |-> "undef", text |-> <<>>]
TextDetail(text) == [k |-> "str", text |-> text]
ObjDetail == [k |-> "obj", text |-> <<>>]

\* An axios error with a response (hasResponse) or without one (status 0).
HttpError(status, detail) ==
    [hasResponse |-> TRUE, status |-> status, detail |-> detail,
     message |-> <<"Request failed with status code">>]
NetworkError ==
    [hasResponse |-> FALSE, status |-> 0, detail |-> NoDetail,
     message |-> <<"Network Error">>]
\* new Error(message)
ThrownError(message) ==
    [hasResponse |-> FALSE, status |-> 0, detail |-> NoDetail, message |-> message]

\* The rejection axios produces when its timer expires.
TimeoutError ==
    [hasResponse |-> FALSE, status |-> 0, detail |-> NoDetail,
     message |-> <<"timeout of ", "ms exceeded">>]

Details ==
    {NoDetail, TextDetail(<<"Invalid prompt">>),
     TextDetail(<<"Gemini ", "rate limit", " exceeded">>),
     TextDetail(<<"429 ", "RESOURCE_EXHAUSTED">>), ObjDetail}
Statuses == {400, 401, 429, 500, 503}
RateLimitTexts == {<<"Gemini ", "rate limit", " exceeded">>, <<"429 ", "RESOURCE_EXHAUSTED">>}

\* A response to POST analyze: an HTTP 200 body or a rejection.
Body(raw) == [kind |-> "body", body |-> raw, error |-> NetworkError]
Rejected(e) ==
    [kind |-> "error",
     body |-> [success |-> FALSE, message |-> <<>>, id |-> 0, history_id |-> 0,
               conversation_id |-> Undef, created_at |-> Undef, data |-> NoObj,
               output_data |-> NoObj],
     error |-> e]
FailureBody(message) ==
    Body([success |-> FALSE, message |-> message, id |-> 0, history_id |-> 0,
          conversation_id |-> Undef, created_at |-> Undef, data |-> NoObj,
          output_data |-> NoObj])

----------------------------------------------------------------------------
(* api.js: dataAPI.getRecommendation                                       *)

\* getRecommendation mutant: the success flag of the body is not looked at.
getRecommendationNoCheck(resp) ==
    IF resp.kind = "error"
    THEN [ok |-> FALSE, error |-> resp.error, data |-> <<>>]
    ELSE [ok |-> TRUE, error |-> NetworkError, data |-> <<adaptResponse(resp.body)>>]

\* The settled promise of getRecommendation: the adapted result, or the error
\* thrown (the axios rejection, or Error(message) for success:false).
getRecommendation(resp) ==
    IF resp.kind = "error"
    THEN [ok |-> FALSE, error |-> resp.error, data |-> <<>>]
    ELSE IF ~resp.body.success
    THEN [ok |-> FALSE,
          error |-> ThrownError(IF resp.body.message # <<>> THEN resp.body.message
                                ELSE <<"API returned failure status.">>),
          data |-> <<>>]
    ELSE [ok |-> TRUE, error |-> NetworkError, data |-> <<adaptResponse(resp.body)>>]

----------------------------------------------------------------------------
(* InputPrompt.jsx (second half of DetailHistory.jsx in this checkout)     *)

\* !prompt.trim() mutant: the prompt is tested without trimming.
IsBlankNoTrim(p) == p = <<>>

\* !prompt.trim()
IsBlank(p) == Trim(p) = <<>>

\* error.response?.data?.detail || error.message || ''
ErrorDetail(e) ==
    IF e.hasResponse /\ (e.detail.k = "obj" \/ (e.detail.k = "str" /\ e.detail.text # <<>>))
    THEN e.detail
    ELSE TextDetail(e.message)

\* The catch block of handleFind: the message chosen for the error modal, or
\* thrown when errorDetail.includes is not a function (the block is left
\* before setErrorMessage; finally still runs).
handleFindCatch(e) ==
    LET d == ErrorDetail(e)
        is429 == e.hasResponse /\ e.status = 429
    IN IF ~is429 /\ d.k = "obj" THEN [thrown |-> TRUE, msg |-> <<>>]
       ELSE IF is429 \/ Includes(d.text, "rate limit") \/ Includes(d.text, "RESOURCE_EXHAUSTED")
       THEN [thrown |-> FALSE, msg |-> MsgRateLimit]
       ELSE IF e.hasResponse /\ e.status = 401 THEN [thrown |-> FALSE, msg |-> MsgSession]
       ELSE IF e.hasResponse /\ e.status >= 500 THEN [thrown |-> FALSE, msg |-> MsgServer]
       ELSE [thrown |-> FALSE, msg |-> MsgGeneric]

\* ErrorModal: the look chosen for a message.
ErrorModal(message) ==
    LET isRateLimit == Includes(message, "AI Sibuk")
    IN [title |-> IF isRateLimit THEN "Tunggu Sebentar..." ELSE "Oops!",
        button |-> IF isRateLimit THEN "OK, Saya Mengerti" ELSE "Try Again",
        message |-> message]

\* The request POST analyze leaves with.
NoRaw == Rejected(NetworkError).body
AnalyzeRequest == [tok |-> AuthHeader, mounted |-> TRUE, st |-> "sent", raw |-> NoRaw]

\* onChange of the prompt field and the suggestion chips.
setPrompt(p) ==
    /\ route = HomeRoute
    /\ p \in Prompts /\ p # prompt
    /\ prompt' = p
    /\ earlyReturn' = FALSE
    /\ UNCHANGED <<storageVars, appVars, routeVars, isLoading, showError,
                   errorMessage, showConfirm, loginVars, netVars, entries, fixVars>>

\* handleFind up to its await, started by the Generate button (disabled while
\* the prompt is blank or isLoading) or by Enter in the prompt field.
handleFind(via) ==
    /\ route = HomeRoute
    /\ via = "button" => ~(IsBlank(prompt) \/ isLoading)
    /\ IF IsBlank(prompt)
       THEN /\ earlyReturn' = TRUE
            /\ UNCHANGED <<isLoading, analyzeReqs>>
       ELSE /\ InFlight < MaxInFlight
            /\ isLoading' = TRUE
            /\ analyzeReqs' = BagAdd(analyzeReqs, AnalyzeRequest)
            /\ UNCHANGED earlyReturn
    /\ UNCHANGED <<storageVars, appVars, routeVars, prompt, showError, errorMessage,
                   showConfirm, loginVars, loginReqs, loginTimers, historyReqs,
                   deleteReqs, entries, fixVars>>

\* ErrorModal onClose on the prompt page.
closeError ==
    /\ route = HomeRoute /\ showError
    /\ showError' = FALSE
    /\ UNCHANGED <<storageVars, appVars, routeVars, prompt, isLoading, errorMessage,
                   earlyReturn, showConfirm, loginVars, netVars, entries, fixVars>>

\* catch mutant: a failed request is sent again.
AfterFailureRetry(reqs, r) == reqs

\* The requests in flight after a rejected one has been handled by the catch
\* block of handleFind: nothing is sent again.
AfterFailure(reqs, r) == BagRemove(reqs, r)

\* The answers the endpoint can give to a request it has not fulfilled.
FailureResponses(r) ==
    IF endpoint = "rateLimited"
    THEN {Rejected(HttpError(429, d)) : d \in {NoDetail, ObjDetail}}
    ELSE IF r.tok = NoToken
    THEN {Rejected(HttpError(401, NoDetail))}
    ELSE {Rejected(HttpError(s, NoDetail)) : s \in Statuses}
         \cup {Rejected(HttpError(400, ObjDetail)), Rejected(NetworkError)}
         \cup {FailureBody(m) : m \in {<<>>} \cup RateLimitTexts}

\* The answers that can reach the client for a request: the body the service
\* produced for a fulfilled one, a failure otherwise.
Responses(r) ==
    IF r.st = "ok" THEN {Body(r.raw)}
    ELSE IF r.st = "sent" THEN FailureResponses(r)
    ELSE IF AxiosTimeout > 0 THEN {Rejected(TimeoutError)}
    ELSE {}

\* handleFind after its await. Promise.all resolves once the answer is there
\* and the 8-second delay has elapsed, and rejects as soon as the request
\* does. try: onSearchSuccess = handleSearchSuccess (setCurrentResult,
\* fetchHistory, navigate('/result')); catch: the error modal; finally:
\* setIsLoading(false). The response interceptor runs first.
handleFindSettles(r, resp) ==
    /\ r \in BagToSet(analyzeReqs)
    /\ resp \in Responses(r)
    /\ LET out == getRecommendation(resp)
           shown == handleFindCatch(out.error)
           loading == IF r.mounted THEN FALSE ELSE isLoading
       IN IF out.ok
          THEN /\ currentResult' = out.data
               /\ historyReqs' = BagAdd(historyReqs, FetchRequest("fetch"))
               /\ UNCHANGED <<storageVars, isLoggedIn, isLanding, historyList, isDeleting>>
               /\ SetRoute(ResultRoute, 0)
               /\ PromptState(prompt, loading, showError, errorMessage, earlyReturn,
                              BagRemove(analyzeReqs, r))
          ELSE /\ token' = IF resp.kind = "error"
                           THEN TokenAfterError(out.error.status, AnalyzeUrl)
                           ELSE token
               /\ UNCHANGED <<lsUsername, appVars, routeVars, historyReqs>>
               /\ PromptState(prompt, loading,
                              IF r.mounted /\ ~shown.thrown THEN TRUE ELSE showError,
                              IF r.mounted /\ ~shown.thrown THEN shown.msg
                              ELSE errorMessage,
                              earlyReturn, AfterFailure(analyzeReqs, r))
    /\ KeepConfirm /\ KeepLogin
    /\ UNCHANGED <<loginTimers, deleteReqs, entries, fixVars>>

----------------------------------------------------------------------------
(* The history service (the backend behind analyze, history, history/{id}) *)

FreeIds == {i \in Ids : entries[i].st = "free"}

\* A run completes: the entry is appended under the requesting user and
\* returned with its id in the same unit.
ServerAnalyze(r, core) ==
    /\ r \in BagToSet(analyzeReqs) /\ r.st = "sent"
    /\ r.tok \in Users
    /\ endpoint = "normal"
    /\ core \in CoreSamples
    /\ FreeIds # {}
    /\ LET id == CHOOSE i \in FreeIds : \A j \in FreeIds : i <= j
           raw == RawData(TRUE, <<>>, id, 0, CreatedAt, Obj(core), NoObj)
       IN /\ entries' = [entries EXCEPT ![id] =
                            [st |-> "live", owner |-> r.tok, core |-> core]]
          /\ analyzeReqs' = BagReplace(analyzeReqs, r, [r EXCEPT !.st = "ok", !.raw = raw])
    /\ UNCHANGED <<storageVars, appVars, routeVars, promptVars, showConfirm,
                   loginVars, loginReqs, loginTimers, historyReqs, deleteReqs,
                   fixVars>>

\* The endpoint never answers a request.
AnalyzeHangs(r) ==
    /\ r \in BagToSet(analyzeReqs) /\ r.st = "sent" /\ r.mounted
    /\ endpoint = "normal"
    /\ CountSt(analyzeReqs, "hung") = 0
    /\ analyzeReqs' = BagReplace(analyzeReqs, r, [r EXCEPT !.st = "hung"])
    /\ UNCHANGED <<storageVars, appVars, routeVars, promptVars, showConfirm,
                   loginVars, loginReqs, loginTimers, historyReqs, deleteReqs,
                   entries, fixVars>>

\* list(userId): the ids of the live entries owned by u, newest first.
RECURSIVE ListFrom(_, _)
ListFrom(u, n) ==
    IF n = 0 THEN <<>>
    ELSE IF entries[n].st = "live" /\ entries[n].owner = u
    THEN <<n>> \o ListFrom(u, n - 1)
    ELSE ListFrom(u, n - 1)
ServerListFor(u) == ListFrom(u, MaxId)

\* GET history is served for an authenticated request.
ServerList(r) ==
    /\ r \in BagToSet(historyReqs) /\ r.st = "sent"
    /\ r.tok \in Users
    /\ historyReqs' = BagReplace(historyReqs, r,
                         [r EXCEPT !.st = "ok", !.list = ServerListFor(r.tok)])
    /\ UNCHANGED <<storageVars, appVars, routeVars, promptVars, showConfirm,
                   loginVars, loginReqs, loginTimers, analyzeReqs, deleteReqs,
                   entries, fixVars>>

\* delete(userId, entryId) mutant: ownership is not checked.
ServerDeleteOutcomeNoOwner(u, id) ==
    IF id \in Ids /\ entries[id].st = "live" THEN "ok" ELSE "notfound"

\* delete(userId, entryId): success, or NotFound when the entry does not
\* exist or does not belong to userId.
ServerDeleteOutcome(u, id) ==
    IF id \in Ids /\ entries[id].st = "live" /\ entries[id].owner = u
    THEN "ok" ELSE "notfound"

\* DELETE history/{id} is served for an authenticated request.
ServerDelete(r) ==
    /\ r \in BagToSet(deleteReqs) /\ r.st = "sent"
    /\ r.tok \in Users
    /\ LET outcome == ServerDeleteOutcome(r.tok, r.id)
       IN /\ entries' = IF outcome = "ok"
                        THEN [entries EXCEPT ![r.id].st = "deleted"]
                        ELSE entries
          /\ deleteReqs' = BagReplace(deleteReqs, r, [r EXCEPT !.st = outcome])
    /\ UNCHANGED <<storageVars, appVars, routeVars, promptVars, showConfirm,
                   loginVars, loginReqs, loginTimers, analyzeReqs, historyReqs,
                   fixVars>>

----------------------------------------------------------------------------
(* api.js: dataAPI.getHistory, and App.jsx: fetchHistory                   *)

\* The item the service returns for an entry.
HistoryItemRaw(id) == RawData(TRUE, <<>>, id, 0, CreatedAt, NoObj, Obj(entries[id].core))

\* item.output_data?.nama_senyawa || item.output_data?.name || "Analisis Tanpa Judul"
TitleOf(item) ==
    IF item.output_data.k = "obj"
    THEN Or(Or(item.output_data.f.nama_senyawa, item.output_data.f.name),
            "Analisis Tanpa Judul")
    ELSE "Analisis Tanpa Judul"

\* map mutant: the items come out in reverse order.
getHistoryReversed(rawList) ==
    [i \in 1..Len(rawList) |->
        adaptResponse(rawList[Len(rawList) + 1 - i])
          @@ [title |-> TitleOf(rawList[Len(rawList) + 1 - i])]]

\* rawHistoryList.map(item => ({...adaptResponse(item), title}))
getHistory(rawList) ==
    [i \in 1..Len(rawList) |-> adaptResponse(rawList[i]) @@ [title |-> TitleOf(rawList[i])]]

\* The body of a GET history response: the array itself, or an object whose
\* data field holds it.
ArrayBody(items) == [k |-> "array", data |-> List(items)]
EnvelopeBody(data) == [k |-> "object", data |-> data]

\* Array.isArray(response.data) ? response.data : (response.data.data || [])
RawHistoryList(body) == IF body.data.k = "list" THEN body.data.items ELSE <<>>

\* What fetchHistory passes to setHistoryList: getHistory's array, which
\* Array.isArray(data) ? data : (data.history || []) leaves as it is.
HistoryData(body) == getHistory(RawHistoryList(body))

\* The outcomes GET history can have for a request: 200 with the list the
\* service produced, 401, 500, or no response (0). A request without a token
\* is rejected with 401.
FetchStatuses(r) ==
    IF r.st = "ok" THEN {200}
    ELSE IF r.tok = NoToken THEN {401}
    ELSE {401, 500, 0}

\* fetchHistory catch mutant: no failure logs the user out.
FetchLogsOutNever(status) == FALSE

\* fetchHistory catch: error.response && error.response.status === 401.
FetchLogsOut(status) == status = 401

\* fetchHistory after its await (setHistoryList, or handleLogout on 401), and,
\* when it was awaited by handleDeleteHistory, the rest of that handler:
\* navigate('/history') and finally setIsDeleting(false).
fetchHistorySettles(r, status) ==
    /\ r \in BagToSet(historyReqs)
    /\ status \in FetchStatuses(r)
    /\ historyReqs' = BagRemove(historyReqs, r)
    /\ IF status = 200
       THEN /\ historyList' =
                  HistoryData(ArrayBody([i \in 1..Len(r.list) |-> HistoryItemRaw(r.list[i])]))
            /\ UNCHANGED <<storageVars, isLoggedIn, isLanding>>
       ELSE IF FetchLogsOut(status)
       THEN /\ token' = NoToken
            /\ LogoutEffects
            /\ UNCHANGED historyList
       ELSE /\ token' = TokenAfterError(status, HistoryUrl)
            /\ UNCHANGED <<lsUsername, isLoggedIn, isLanding, historyList>>
    /\ isDeleting' = IF r.origin = "delete" THEN FALSE ELSE isDeleting
    /\ UNCHANGED <<currentResult, loginTimers, deleteReqs, entries, fixVars>>
    /\ IF r.origin = "delete" THEN SetRoute(HistoryRoute, 0)
       ELSE IF FetchLogsOut(status) THEN SetRoute(LoginRoute, 0)
       ELSE SetRoute(route, routeId)
    /\ KeepPrompt /\ KeepConfirm /\ KeepLogin

----------------------------------------------------------------------------
(* DetailHistory.jsx and App.jsx: deleting an entry                        *)

DetailView == HistoryWrapper(historyList, routeId)

\* ConfirmModal mutant: the modal is on screen without being asked for.
ConfirmModalRenderedAlways == TRUE

\* {showConfirm && <ConfirmModal .../>}
ConfirmModalRendered == showConfirm

\* Delete History button mutant: the button is never disabled.
DeleteButtonDisabledNever == FALSE

\* <button ... disabled={isDeleting}>
DeleteButtonDisabled == isDeleting

\* The Delete History button (disabled while isDeleting).
openConfirm ==
    /\ route = DetailRoute /\ DetailView.view = "detail"
    /\ ~DeleteButtonDisabled /\ ~showConfirm
    /\ showConfirm' = TRUE
    /\ UNCHANGED <<storageVars, appVars, routeVars, promptVars, loginVars, netVars,
                   entries, fixVars>>

\* ConfirmModal onCancel: the Cancel button or a click on the overlay.
cancelConfirm ==
    /\ route = DetailRoute /\ DetailView.view = "detail"
    /\ ConfirmModalRendered
    /\ showConfirm' = FALSE
    /\ UNCHANGED <<storageVars, appVars, routeVars, promptVars, loginVars, netVars,
                   entries, fixVars>>

\* ConfirmModal onConfirm = handleConfirmDelete: onDelete(data.id), which is
\* handleDeleteHistory up to its first await, then setShowConfirm(false).
handleConfirmDelete ==
    /\ route = DetailRoute /\ DetailView.view = "detail"
    /\ ConfirmModalRendered
    /\ InFlight < MaxInFlight
    /\ isDeleting' = TRUE
    /\ deleteReqs' = BagAdd(deleteReqs,
                            [tok |-> AuthHeader, id |-> DetailView.data[1].id, st |-> "sent"])
    /\ showConfirm' = FALSE
    /\ UNCHANGED <<storageVars, isLoggedIn, isLanding, currentResult,
                   historyList, routeVars, promptVars, loginVars, loginReqs,
                   loginTimers, analyzeReqs, historyReqs, entries, fixVars>>

\* The outcomes DELETE history/{id} can have for a request.
DeleteStatuses(r) ==
    IF r.st = "ok" THEN {200}
    ELSE IF r.st = "notfound" THEN {404}
    ELSE IF r.tok = NoToken THEN {401}
    ELSE {401, 500, 0}

\* dataAPI.deleteHistory mutant: the promise resolves whatever the status is.
deleteHistoryResolvesAlways(status) == TRUE

\* dataAPI.deleteHistory: the promise resolves for a 2xx answer and rejects
\* otherwise.
deleteHistoryResolves(status) == status = 200

\* handleDeleteHistory after its first await: fetchHistory is started and
\* awaited on success; catch and finally setIsDeleting(false) otherwise.
handleDeleteSettles(r, status) ==
    /\ r \in BagToSet(deleteReqs)
    /\ status \in DeleteStatuses(r)
    /\ deleteReqs' = BagRemove(deleteReqs, r)
    /\ IF deleteHistoryResolves(status)
       THEN /\ historyReqs' = BagAdd(historyReqs, FetchRequest("delete"))
            /\ UNCHANGED <<token, isDeleting>>
       ELSE /\ token' = TokenAfterError(status, DeleteUrl)
            /\ isDeleting' = FALSE
            /\ UNCHANGED historyReqs
    /\ UNCHANGED <<lsUsername, isLoggedIn, isLanding, currentResult,
                   historyList, routeVars, promptVars, showConfirm, loginVars,
                   loginReqs, loginTimers, analyzeReqs, entries, fixVars>>

----------------------------------------------------------------------------
(* RecommendResult.jsx (last part of App.jsx in this checkout)             *)

\* What RecommendResult renders for {...currentResult}: the alternative
\* cards, the hero card (prediction && ...), and the line "No formulation
\* data found." (recommendations.length === 0 && !prediction).
RecommendResult(data) ==
    [alternatives |-> data.recommendations,
     hero |-> data.prediction,
     noData |-> Len(data.recommendations) = 0 /\ data.prediction = <<>>]

----------------------------------------------------------------------------
(* The pure functions applied on their own to bounded inputs               *)

\* Alternatives in a sampled payload.
MaxAlts == 2

HeroFields ==
    {"nama_senyawa", "name", "formula", "smiles", "description", "justifikasi",
     "dosage", "contraindications", "safety_notes", "usage_guidelines",
     "sifat_kimia", "properties"}
RecFields ==
    {"name", "nama_senyawa", "formula", "smiles", "justification", "description",
     "properties", "sifat_kimia", "pros", "cons", "price_range"}
ListFields == {"contraindications", "pros", "cons"}
PropsFields == {"sifat_kimia", "properties"}

\* The ways a field can be absent: key missing, null, or empty.
AbsenceKinds == {Undef, Null, ""}

Absent(f, kind) ==
    IF f \in ListFields
    THEN (IF kind = Undef THEN UndefList ELSE IF kind = Null THEN NullList ELSE List(<<>>))
    ELSE IF f \in PropsFields
    THEN (IF kind = Undef THEN UndefProps ELSE IF kind = Null THEN NullProps
          ELSE StrProps(""))
    ELSE kind

\* The object obj with the fields of S absent.
WithAbsent(obj, S, kind) ==
    [f \in DOMAIN obj |-> IF f \in S THEN Absent(f, kind) ELSE obj[f]]

FullRec ==
    [name |-> "Magnesium Ascorbyl Phosphate", nama_senyawa |-> "MAP",
     formula |-> "C6H11MgO9P", smiles |-> "OCC(O)C1OC(=O)C(O)=C1O",
     justification |-> "stable at neutral pH", description |-> "vitamin C ester",
     properties |-> ObjProps(<<[key |-> "pH", val |-> "7"]>>),
     sifat_kimia |-> StrProps("larut air"),
     pros |-> List(<<"stable">>), cons |-> List(<<"costly">>),
     price_range |-> "$$"]
FullCore ==
    [nama_senyawa |-> "3-O-Ethyl Ascorbic Acid", name |-> "Ethyl Ascorbic Acid",
     formula |-> "C8H12O6", smiles |-> "CCOC1=C(O)C(=O)OC1C(O)CO",
     description |-> "brightening", justifikasi |-> "stabil",
     dosage |-> "1-2%", contraindications |-> List(<<"pregnancy">>),
     safety_notes |-> "patch test", usage_guidelines |-> "AM",
     sifat_kimia |-> ObjProps(<<[key |-> "pH", val |-> "4"],
                                [key |-> "logP", val |-> Undef]>>),
     properties |-> StrProps("stable"),
     recommendations |-> List(<<FullRec>>)]

\* n alternatives, the first one being rec.
Alts(rec, n) == [i \in 1..n |-> IF i = 1 THEN rec ELSE Alt1]

\* Formulation objects: any subset of the hero fields absent, any subset of
\* the fields of an alternative absent, and 0..MaxAlts alternatives.
CoreInputs ==
    {WithAbsent(FullCore, S, kind) : S \in SUBSET HeroFields, kind \in AbsenceKinds}
    \cup {[FullCore EXCEPT !.recommendations = List(Alts(WithAbsent(FullRec, S, kind), MaxAlts))] :
            S \in SUBSET RecFields, kind \in AbsenceKinds}
    \cup {[FullCore EXCEPT !.recommendations = List(Alts(FullRec, n))] : n \in 0..MaxAlts}
    \cup {[c EXCEPT !.recommendations = l] :
            c \in {EmptyCore, FullCore}, l \in {UndefList, NullList, List(<<>>)}}

\* Raw analyze responses (formulation under data) and history items
\* (formulation under output_data), with and without a formulation object.
RawInputs ==
    {RawData(TRUE, <<>>, 1, 0, CreatedAt, Obj(c), NoObj) : c \in CoreInputs}
    \cup {RawData(TRUE, <<>>, 1, 0, CreatedAt, NoObj, Obj(c)) :
            c \in {EmptyCore, FullCore, HeroCore}}
    \cup {RawData(TRUE, <<>>, i, h, t, d, NoObj) :
            i \in {0, 1}, h \in {0, 1}, t \in {Undef, CreatedAt},
            d \in {NoObj, NullObj, Obj(FullCore), Obj(HeroCore)}}

\* Successful analyze responses handed to the result page.
ShownInputs ==
    {RawData(TRUE, <<>>, 1, 0, CreatedAt, d, NoObj) :
        d \in {NoObj, NullObj, Obj(EmptyCore),
               Obj([EmptyCore EXCEPT !.recommendations = List(<<>>)]),
               Obj([EmptyCore EXCEPT !.recommendations = List(<<Alt1>>)]),
               Obj(HeroCore), Obj(FullCore)}}

\* Formulations sent once in an analyze response and once in a history item:
\* nothing absent, everything absent, each hero field absent in turn, and
\* 0..MaxAlts alternatives.
RoundTripInputs ==
    {EmptyCore, FullCore, HeroCore}
    \cup {WithAbsent(FullCore, {f}, kind) : f \in HeroFields, kind \in AbsenceKinds}
    \cup {[FullCore EXCEPT !.recommendations = List(Alts(FullRec, n))] : n \in 0..MaxAlts}

\* The longest history list served to fetchHistory.
MaxListed == 3

\* The history item with the given id.
ListedItem(id) ==
    RawData(TRUE, <<>>, id, 0, CreatedAt, NoObj,
            Obj(IF id = 1 THEN FullCore ELSE HeroCore))

\* Orders in which up to MaxListed different entries can be served.
ListedOrders ==
    {s \in UNION {[1..n -> 1..MaxListed] : n \in 0..MaxListed} :
        \A i, j \in DOMAIN s : i # j => s[i] # s[j]}

\* GET history bodies: each order as a plain array and inside an object.
HistoryBodies ==
    {ArrayBody([i \in DOMAIN s |-> ListedItem(s[i])]) : s \in ListedOrders}
    \cup {EnvelopeBody(List([i \in DOMAIN s |-> ListedItem(s[i])])) : s \in ListedOrders}
    \cup {EnvelopeBody(UndefList)}

\* History lists held by the app when /history/:id is opened: each served
\* order, and a list with an entry that came without an id.
HeldLists ==
    {HistoryData(ArrayBody([i \in DOMAIN s |-> ListedItem(s[i])])) : s \in ListedOrders}
    \cup {HistoryData(ArrayBody(<<ListedItem(0), ListedItem(1)>>))}

\* The ids /history/:id is opened with: those of the entries and one more.
OpenedIds == 1..(MaxListed + 1)

\* The text of a form field: a sequence of characters; n characters.
Chars(c, n) == [i \in 1..n |-> c]

\* String.includes(c) for one character.
HasChar(s, c) == \E i \in 1..Len(s) : s[i] = c

\* A value in a request body: a string, an object or undefined.
StrVal(s) == [k |-> "str", s |-> s, o |-> <<>>]
ObjVal(o) == [k |-> "obj", s |-> <<>>, o |-> <<o>>]
UndefVal == [k |-> "undef", s |-> <<>>, o |-> <<>>]

\* Register's useEffect: which fields have an error text.
RegisterErrors(form) ==
    [username |-> form.username # <<>>
                    /\ (Len(form.username) < 3 \/ Len(form.username) > 10),
     email |-> form.email # <<>>
                 /\ (~HasChar(form.email, "@") \/ ~HasChar(form.email, ".")),
     password |-> form.password # <<>>
                    /\ (Len(form.password) < 8 \/ Len(form.password) > 72),
     confirmPassword |-> form.confirmPassword # <<>>
                           /\ form.password # form.confirmPassword]

RegisterUrl == <<"auth", "/", "register">>

\* authAPI.register(fullName, email, password): the request it posts.
register(fullName, email, password) ==
    [url |-> RegisterUrl,
     body |-> [full_name |-> fullName, email |-> email, password |-> password]]

\* Register.handleRegister up to its await: the error modal, or the request
\* made by authAPI.register({username, email, password}).
handleRegister(form) ==
    LET errors == RegisterErrors(form)
    IN IF \/ errors.username \/ errors.email \/ errors.password
          \/ errors.confirmPassword
          \/ form.username = <<>> \/ form.email = <<>> \/ form.password = <<>>
       THEN [sent |-> <<>>, showError |-> TRUE,
             errorMessage |-> <<"Please fill in the form correctly.">>,
             isLoading |-> FALSE]
       ELSE [sent |-> <<register(ObjVal([username |-> form.username,
                                         email |-> form.email,
                                         password |-> form.password]),
                                 UndefVal, UndefVal)>>,
             showError |-> FALSE, errorMessage |-> <<>>, isLoading |-> TRUE]

\* Registration forms: every field empty, just outside, at both ends of its
\* range; the confirmation empty, equal to the password, or different.
RegisterForms ==
    {[username |-> u, email |-> e, password |-> p, confirmPassword |-> c] :
        u \in {Chars("u", n) : n \in {0, 2, 3, 10, 11}},
        e \in {<<>>, <<"a", "@", "b", ".", "c">>, <<"a", "@", "b">>, <<"a", ".", "b">>,
               <<"a", "b">>},
        p \in {Chars("p", n) : n \in {0, 7, 8, 72, 73}},
        c \in {<<>>, Chars("p", 8), Chars("q", 8)}}

\* Errors handed to the catch block of handleFind.
ErrorInputs ==
    {HttpError(s, d) : s \in Statuses, d \in Details}
    \cup {NetworkError}
    \cup {ThrownError(m) : m \in {<<"API returned failure status.">>,
                                  <<"Pipeline failed">>} \cup RateLimitTexts}

Calls ==
    {[fn |-> "adaptResponse", arg |-> raw] : raw \in RawInputs}
    \cup {[fn |-> "showResult", arg |-> raw] : raw \in ShownInputs}
    \cup {[fn |-> "handleFindCatch", arg |-> e] : e \in ErrorInputs}
    \cup {[fn |-> "roundTrip", arg |-> c] : c \in RoundTripInputs}
    \cup {[fn |-> "fetchHistory", arg |-> b] : b \in HistoryBodies}
    \cup {[fn |-> "HistoryWrapper", arg |-> [list |-> l, id |-> id]] :
            l \in HeldLists, id \in OpenedIds}
    \cup {[fn |-> "handleRegister", arg |-> f] : f \in RegisterForms}

PureInit ==
    /\ ClientInit
    /\ endpoint = "normal"
    /\ call \in Calls /\ ret = <<>>
    /\ runs = [r \in Runs |-> NewRun]

pureFrame ==
    <<storageVars, appVars, routeVars, promptVars, showConfirm, loginVars, netVars,
      entries, endpoint, call, runs>>

CallAdaptResponse ==
    /\ call.fn = "adaptResponse" /\ ret = <<>>
    /\ ret' = <<adaptResponse(call.arg)>>
    /\ UNCHANGED pureFrame

\* getRecommendation resolves with the adapted response, handleSearchSuccess
\* stores it and /result renders it.
CallShowResult ==
    /\ call.fn = "showResult" /\ ret = <<>>
    /\ LET out == getRecommendation(Body(call.arg))
       IN out.ok /\ ret' = <<RecommendResult(out.data[1])>>
    /\ UNCHANGED pureFrame

CallHandleFindCatch ==
    /\ call.fn = "handleFindCatch" /\ ret = <<>>
    /\ ret' = <<handleFindCatch(call.arg)>>
    /\ UNCHANGED pureFrame

\* The formulation is returned by POST analyze (getRecommendation) and read
\* back as the only item of GET history (getHistory).
CallRoundTrip ==
    /\ call.fn = "roundTrip" /\ ret = <<>>
    /\ LET first == getRecommendation(
                        Body(RawData(TRUE, <<>>, 1, 0, CreatedAt, Obj(call.arg), NoObj)))
           back == getHistory(<<RawData(TRUE, <<>>, 1, 0, CreatedAt, NoObj, Obj(call.arg))>>)
       IN first.ok /\ ret' = <<[reported |-> first.data[1], readBack |-> back[1]]>>
    /\ UNCHANGED pureFrame

\* fetchHistory with a 200 answer: setHistoryList(historyData).
CallFetchHistory ==
    /\ call.fn = "fetchHistory" /\ ret = <<>>
    /\ historyList' = HistoryData(call.arg)
    /\ ret' = <<Len(historyList')>>
    /\ UNCHANGED <<storageVars, isLoggedIn, isLanding, currentResult, isDeleting,
                   routeVars, promptVars, showConfirm, loginVars, netVars, entries,
                   endpoint, call, runs>>

\* /history/:id is rendered for a history list and an id.
CallHistoryWrapper ==
    /\ call.fn = "HistoryWrapper" /\ ret = <<>>
    /\ ret' = <<HistoryWrapper(call.arg.list, call.arg.id)>>
    /\ UNCHANGED pureFrame

\* The Register Account button is pressed on a filled-in form.
CallHandleRegister ==
    /\ call.fn = "handleRegister" /\ ret = <<>>
    /\ ret' = <<handleRegister(call.arg)>>
    /\ UNCHANGED pureFrame

PureNext ==
    \/ CallAdaptResponse
    \/ CallShowResult
    \/ CallHandleFindCatch
    \/ CallRoundTrip
    \/ CallFetchHistory
    \/ CallHistoryWrapper
    \/ CallHandleRegister

PureSpec == PureInit /\ [][PureNext]_vars

----------------------------------------------------------------------------
(* The pipeline orchestrator of the backend: one run per formulation       *)
(* request. Its code is not in this checkout; the run is followed stage by *)
(* stage as its contract describes it.                                     *)

WorkingStages == {"Retrieving", "Analyzing", "Synthesizing"}

\* The stage that follows a stage which ended well.
NextStage(stage) ==
    IF stage = "NotStarted" THEN "Received"
    ELSE IF stage = "Received" THEN "Retrieving"
    ELSE IF stage = "Retrieving" THEN "Analyzing"
    ELSE IF stage = "Analyzing" THEN "Synthesizing"
    ELSE "Completed"

\* The failures a stage can end with; a run can time out in every stage.
StageErrors(stage) ==
    IF stage = "Retrieving" THEN {"RetrievalError", "Timeout"}
    ELSE IF stage = "Analyzing"
    THEN {"RateLimitedError", "ModelOutputInvalidError", "Timeout"}
    ELSE {"RateLimitedError", "ModelOutputInvalidError", "EmptyFormulationError",
          "Timeout"}

\* Analysis and synthesis failures are retried once by the orchestrator,
\* except an empty formulation and a run that is out of time.
Retryable(stage, err) ==
    /\ stage \in {"Analyzing", "Synthesizing"}
    /\ err \in {"RateLimitedError", "ModelOutputInvalidError"}

\* Retry mutant: a retried run starts again from retrieval.
RetryStageFromRetrieval(stage) == "Retrieving"

\* The stage a retried step runs in: the one that failed.
RetryStage(stage) == stage

pipelineFrame ==
    <<storageVars, appVars, routeVars, promptVars, showConfirm, loginVars, netVars,
      entries, endpoint, call, ret>>

\* A formulation request arrives and its run is created.
Receive(r) ==
    /\ runs[r].stage = "NotStarted"
    /\ runs' = [runs EXCEPT ![r].stage = NextStage("NotStarted")]
    /\ UNCHANGED pipelineFrame

\* The current stage of a run ends well and the next one starts.
Advance(r) ==
    /\ runs[r].stage \in {"Received"} \cup WorkingStages
    /\ runs' = [runs EXCEPT ![r].stage = NextStage(runs[r].stage),
                            ![r].retried = FALSE]
    /\ UNCHANGED pipelineFrame

\* The current stage of a run fails: it is retried once when the failure is
\* retryable, and the run fails otherwise.
StageFails(r, err) ==
    /\ runs[r].stage \in WorkingStages
    /\ err \in StageErrors(runs[r].stage)
    /\ runs' = IF Retryable(runs[r].stage, err) /\ ~runs[r].retried
               THEN [runs EXCEPT ![r].stage = RetryStage(runs[r].stage),
                                 ![r].retried = TRUE]
               ELSE [runs EXCEPT ![r].stage = "Failed", ![r].failure = err]
    /\ UNCHANGED pipelineFrame

PipelineInit ==
    /\ ClientInit
    /\ endpoint = "normal"
    /\ call = NoCall /\ ret = <<>>
    /\ runs = [r \in Runs |-> NewRun]

PipelineNext ==
    \/ \E r \in Runs : Receive(r)
    \/ \E r \in Runs : Advance(r)
    \/ \E r \in Runs, err \in StageErrors("Synthesizing") : StageFails(r, err)

PipelineSpec == PipelineInit /\ [][PipelineNext]_vars

----------------------------------------------------------------------------
(* The whole system                                                        *)

Next ==
    \/ handleLoginInvalid
    \/ \E cred \in Users \cup {"wrong"} : handleLogin(cred)
    \/ \E r \in BagToSet(loginReqs) : LoginSucceeds(r)
    \/ \E r \in BagToSet(loginReqs), status \in {401, 0} : LoginFails(r, status)
    \/ LoginCloseError
    \/ handleLoginSuccess
    \/ ToggleLanding
    \/ handleLogout
    \/ \E t \in NavTargets : Navigate(t)
    \/ \E p \in Prompts : setPrompt(p)
    \/ \E via \in {"button", "enter"} : handleFind(via)
    \/ closeError
    \/ \E r \in BagToSet(analyzeReqs) : \E resp \in Responses(r) : handleFindSettles(r, resp)
    \/ \E r \in BagToSet(analyzeReqs), core \in CoreSamples : ServerAnalyze(r, core)
    \/ \E r \in BagToSet(analyzeReqs) : AnalyzeHangs(r)
    \/ \E r \in BagToSet(historyReqs) : ServerList(r)
    \/ \E r \in BagToSet(historyReqs) : \E status \in FetchStatuses(r) :
           fetchHistorySettles(r, status)
    \/ openConfirm
    \/ cancelConfirm
    \/ handleConfirmDelete
    \/ \E r \in BagToSet(deleteReqs) : ServerDelete(r)
    \/ \E r \in BagToSet(deleteReqs) : \E status \in DeleteStatuses(r) :
           handleDeleteSettles(r, status)

Spec == Init /\ [][Next]_vars

----------------------------------------------------------------------------
(* C1..C10                                                                 *)

\* C1: a submission of an empty or whitespace-only prompt (Generate button
\* or Enter) issues no analyze request: every step that adds an analyze
\* request starts from a prompt that is not blank, and the step in which
\* handleFind returns at its first line leaves the requests, isLoading, the
\* error modal and the current result as they were.
C1_BlankPromptIssuesNoRequest ==
    [][/\ BagCardinality(analyzeReqs') > BagCardinality(analyzeReqs)
            => Trim(prompt) # <<>>
       /\ (~earlyReturn /\ earlyReturn')
            => /\ Trim(prompt) = <<>>
               /\ UNCHANGED <<analyzeReqs, isLoading, showError, errorMessage,
                              currentResult>>]_vars

\* A whitespace-only prompt has been submitted and handleFind has returned.
C1_Witness ==
    /\ earlyReturn /\ prompt # <<>> /\ Trim(prompt) = <<>>
    /\ analyzeReqs = EmptyBag /\ ~isLoading

\* A step in which the client handles the failure of an analyze request that
\* the service had not fulfilled: the request leaves the ones waiting for an
\* answer, and no request was fulfilled or left unanswered in the step.
AnalyzeFailureHandled ==
    /\ CountSt(analyzeReqs', "sent") = CountSt(analyzeReqs, "sent") - 1
    /\ CountSt(analyzeReqs', "ok") = CountSt(analyzeReqs, "ok")
    /\ CountSt(analyzeReqs', "hung") = CountSt(analyzeReqs, "hung")

\* C2: when the analyze request fails or is answered success:false,
\* onSearchSuccess is not called: currentResult and historyList are
\* unchanged, no history fetch is started and the location does not change.
C2_FailureRecordsNothing ==
    [][AnalyzeFailureHandled
         => UNCHANGED <<currentResult, historyList, historyReqs, route, routeId>>]_vars

\* A failed submission has ended in the error modal on the prompt page.
C2_Witness ==
    /\ route = HomeRoute /\ showError /\ errorMessage = MsgGeneric
    /\ ~isLoading /\ analyzeReqs = EmptyBag /\ historyReqs = EmptyBag
    /\ currentResult = <<>>

PresentText(v) == v \notin {Undef, Null}
PresentList(l) == l.k = "list"

\* C3: adaptResponse returns a prediction in which every field is present
\* and non-null, and alternatives in which every field is present and
\* non-null, whatever fields of the raw response are missing, null or empty.
C3_AdaptedShapeIsStable ==
    (call.fn = "adaptResponse" /\ ret # <<>>)
      => LET a == ret[1]
         IN /\ Len(a.prediction) = 1
            /\ \A f \in {"name", "formula", "smiles", "description", "dosage",
                         "safetyNotes", "usageGuidelines", "properties"} :
                  PresentText(a.prediction[1][f])
            /\ PresentList(a.prediction[1].contraindications)
            /\ \A i \in 1..Len(a.recommendations) :
                  /\ \A f \in {"name", "formula", "smiles", "justification",
                               "properties", "priceRange"} :
                        PresentText(a.recommendations[i][f])
                  /\ PresentList(a.recommendations[i].pros)
                  /\ PresentList(a.recommendations[i].cons)

\* A response without dosage and with an alternative without price range has
\* been adapted.
C3_Witness ==
    /\ call.fn = "adaptResponse" /\ ret # <<>>
    /\ CoreOf(call.arg).dosage = Undef
    /\ CoreOf(call.arg).safety_notes = Undef
    /\ ret[1].prediction[1].dosage = "N/A - Data Agent 3 Kosong"

\* The raw response carries neither a hero nor an alternative.
NoHeroNoAlternatives(raw) ==
    LET core == CoreOf(raw)
    IN /\ \A f \in HeroFields : core[f] = Absent(f, Undef)
       /\ AdaptRecs(core.recommendations) = <<>>

\* C4: for a successful response without hero and without alternatives the
\* result page has the hero absent, no alternative, and shows the "no
\* formulation found" line instead of a hero card.
C4_EmptyResultIsDistinguished ==
    (call.fn = "showResult" /\ ret # <<>> /\ NoHeroNoAlternatives(call.arg))
      => /\ ret[1].hero = <<>>
         /\ ret[1].alternatives = <<>>
         /\ ret[1].noData

\* The error is a rate-limit signal: status 429, or a detail text that
\* contains "rate limit" or "RESOURCE_EXHAUSTED".
IsRateLimitSignal(e) ==
    \/ e.hasResponse /\ e.status = 429
    \/ Includes(ErrorDetail(e).text, "rate limit")
    \/ Includes(ErrorDetail(e).text, "RESOURCE_EXHAUSTED")

\* C5: a failed submission is presented as the rate-limit outcome when the
\* error is a rate-limit signal and as the one generic outcome otherwise.
C5_TwoFailureOutcomes ==
    (call.fn = "handleFindCatch" /\ ret # <<>>)
      => /\ ~ret[1].thrown
         /\ ret[1].msg = IF IsRateLimitSignal(call.arg) THEN MsgRateLimit ELSE MsgGeneric

\* C6: with an analyze endpoint that always answers rate-limited, the only
\* message surfaced is the rate-limit one and nothing is ever shown as a
\* result; the step that ends a submission (isLoading back to false on the
\* same prompt page) takes its request out of flight without sending it
\* again and shows the rate-limit message; and a request is only ever added
\* by a user's submission of a prompt that is not blank.
C6_RateLimitedSubmissionEnds ==
    [][endpoint = "rateLimited"
         => /\ showError' => errorMessage' = MsgRateLimit
            /\ currentResult' = <<>>
            /\ (isLoading /\ ~isLoading' /\ route' = route)
                 => /\ BagCardinality(analyzeReqs') = BagCardinality(analyzeReqs) - 1
                    /\ showError' /\ ErrorModal(errorMessage').title = "Tunggu Sebentar..."
            /\ BagCardinality(analyzeReqs') > BagCardinality(analyzeReqs)
                 => /\ BagCardinality(analyzeReqs') = BagCardinality(analyzeReqs) + 1
                    /\ isLoading' /\ UNCHANGED <<prompt, showError, errorMessage>>]_vars

\* Against the always rate-limited endpoint a submission has ended: nothing
\* in flight, the rate-limit message on screen.
C6_Witness ==
    /\ endpoint = "rateLimited" /\ route = HomeRoute
    /\ showError /\ errorMessage = MsgRateLimit
    /\ ~isLoading /\ analyzeReqs = EmptyBag

\* C7: every submission that started finishes: a submission whose prompt
\* page is still mounted always has a step ahead of it that ends it, an
\* answer or the expiry of the request's timer.
C7_SubmissionCanFinish ==
    \A r \in BagToSet(analyzeReqs) : r.mounted => Responses(r) # {}

\* C8: every request in flight to analyze, history or history/{id} left with
\* a token.
C8_RequestsCarryToken ==
    /\ \A r \in BagToSet(analyzeReqs) : r.tok # NoToken
    /\ \A r \in BagToSet(historyReqs) : r.tok # NoToken
    /\ \A r \in BagToSet(deleteReqs) : r.tok # NoToken

\* The user whose run produced the adapted item.
OwnerOf(item) == entries[item.id].owner

\* C9: what the history pages and the result page show to the logged-in
\* user was obtained under that user's own token.
C9_VisibleDataIsOwn ==
    (isLoggedIn /\ token \in Users)
      => /\ route \in {HistoryRoute, DetailRoute}
              => \A i \in 1..Len(historyList) : OwnerOf(historyList[i]) = token
         /\ route = ResultRoute
              => \A i \in 1..Len(currentResult) : OwnerOf(currentResult[i]) = token

\* A delete request for a live entry that belongs to another user.
Foreign(r) ==
    /\ r.st = "sent" /\ r.tok \in Users
    /\ entries[r.id].st = "live" /\ entries[r.id].owner # r.tok

\* C10: a delete issued by a user for an entry of another user is answered
\* NotFound, the answer given for a missing entry, and removes nothing: an
\* entry leaves the store only in a step that serves a delete of its owner.
C10_ForeignDeleteIsNotFound ==
    [][/\ \A r \in BagToSet(deleteReqs) :
            (/\ Foreign(r)
             /\ CopiesIn(r, deleteReqs') < CopiesIn(r, deleteReqs)
             /\ BagCardinality(deleteReqs') = BagCardinality(deleteReqs))
              => /\ CopiesIn([r EXCEPT !.st = "notfound"], deleteReqs')
                      > CopiesIn([r EXCEPT !.st = "notfound"], deleteReqs)
                 /\ entries' = entries
       /\ \A id \in Ids :
            (entries[id].st = "live" /\ entries'[id].st # "live")
              => \E r \in BagToSet(deleteReqs) :
                    r.st = "sent" /\ r.id = id /\ r.tok = entries[id].owner]_vars

\* A user's delete of another user's live entry has been answered NotFound.
C10_Witness ==
    \E r \in BagToSet(deleteReqs) :
        /\ r.st = "notfound" /\ r.tok \in Users
        /\ entries[r.id].st = "live" /\ entries[r.id].owner # r.tok

----------------------------------------------------------------------------
(* C11..C20                                                                *)

\* A step in which the client handles the answer to a delete request that
\* the service did not fulfil (not found, or a rejected request).
DeleteFailureHandled ==
    \E r \in BagToSet(deleteReqs) :
        /\ r.st # "ok"
        /\ CopiesIn(r, deleteReqs') < CopiesIn(r, deleteReqs)
        /\ BagCardinality(deleteReqs') < BagCardinality(deleteReqs)

\* A step in which a delete attempt ends after its refetch.
DeleteRefetchHandled ==
    \E r \in BagToSet(historyReqs) :
        /\ r.origin = "delete"
        /\ CopiesIn(r, historyReqs') < CopiesIn(r, historyReqs)
        /\ BagCardinality(historyReqs') < BagCardinality(historyReqs)

\* C11: a delete answered not-found (the second delete of an entry) or
\* otherwise failed ends with isDeleting false, historyList unchanged, no
\* refetch and no navigation; a successful delete ends with isDeleting false
\* once its refetch has settled.
C11_DeleteAttemptEnds ==
    [][/\ DeleteFailureHandled
            => /\ ~isDeleting'
               /\ UNCHANGED <<historyList, historyReqs, route, routeId>>
       /\ DeleteRefetchHandled => ~isDeleting']_vars

\* The second delete of an entry by its owner has been answered not-found
\* and waits for the client.
C11_Witness ==
    \E r \in BagToSet(deleteReqs) :
        /\ r.st = "notfound" /\ isDeleting
        /\ entries[r.id].st = "deleted" /\ entries[r.id].owner = r.tok

\* C12: a DELETE request is issued only by the confirmation in the modal
\* that the Delete History button opened on the detail page of that entry:
\* a step that adds a delete request starts with the modal open on a detail
\* page, adds exactly one request, for the entry of that page, and closes the
\* modal; a step that only closes the modal (Cancel, a click outside) adds
\* no request.
C12_DeleteOnlyWhenConfirmed ==
    [][/\ BagCardinality(deleteReqs') > BagCardinality(deleteReqs)
            => /\ showConfirm /\ ~showConfirm'
               /\ route = DetailRoute /\ routeId \in Ids
               /\ FindItem(historyList, routeId) # <<>>
               /\ \E r \in BagToSet(deleteReqs') :
                     /\ r.id = routeId /\ r.st = "sent"
                     /\ deleteReqs' = BagAdd(deleteReqs, r)
       /\ (showConfirm /\ ~showConfirm' /\ isDeleting' = isDeleting)
            => deleteReqs' = deleteReqs]_vars

\* The deletion of the entry on screen has been confirmed and its request is
\* on its way.
C12_Witness ==
    /\ route = DetailRoute /\ isDeleting /\ ~showConfirm
    /\ \E r \in BagToSet(deleteReqs) : r.id = routeId /\ r.st = "sent"

\* The ids of the entries of a history list.
IdsOf(list) == {list[i].id : i \in 1..Len(list)}

\* C13: once an entry has been deleted and has left historyList, it never
\* appears in historyList again.
C13_DeletedEntryStaysGone ==
    [][\A id \in Ids :
          (entries[id].st = "deleted" /\ id \notin IdsOf(historyList))
            => id \notin IdsOf(historyList')]_vars

\* C14: while the result page shows a result that historyList does not
\* contain, a history fetch that can bring it is under way: the result is
\* never left shown with nothing ahead that lists it.
C14_ShownResultGetsListed ==
    (/\ isLoggedIn /\ route = ResultRoute /\ currentResult # <<>>
     /\ currentResult[1].id \notin IdsOf(historyList))
      => historyReqs # EmptyBag

\* C15: a formulation adapted from an analyze response (under data) and from
\* a history item (under output_data) gives the same prediction and the same
\* recommendations.
C15_RoundTripKeepsFields ==
    (call.fn = "roundTrip" /\ ret # <<>>)
      => /\ ret[1].readBack.prediction = ret[1].reported.prediction
         /\ ret[1].readBack.recommendations = ret[1].reported.recommendations

\* A complete formulation has been reported and read back.
C15_Witness ==
    /\ call.fn = "roundTrip" /\ ret # <<>> /\ call.arg = FullCore
    /\ ret[1].readBack.prediction[1].name = "3-O-Ethyl Ascorbic Acid"
    /\ Len(ret[1].readBack.recommendations) = 1

\* The hero of a raw response has a name; the name; the alternatives.
HeroNamed(raw) == Truthy(CoreOf(raw).nama_senyawa) \/ Truthy(CoreOf(raw).name)
HeroName(raw) ==
    IF Truthy(CoreOf(raw).nama_senyawa) THEN CoreOf(raw).nama_senyawa
    ELSE CoreOf(raw).name
Alternatives(raw) ==
    IF CoreOf(raw).recommendations.k = "list" THEN CoreOf(raw).recommendations.items
    ELSE <<>>

\* The adapted result has the hero's name and the alternatives of the
\* response, one for one and in the order received.
KeepsHeroAndAlternatives(raw, a) ==
    /\ a.prediction[1].name = HeroName(raw)
    /\ Len(a.recommendations) = Len(Alternatives(raw))
    /\ \A i \in 1..Len(Alternatives(raw)) :
          /\ Truthy(Alternatives(raw)[i].name)
                => a.recommendations[i].name = Alternatives(raw)[i].name
          /\ Truthy(Alternatives(raw)[i].formula)
                => a.recommendations[i].formula = Alternatives(raw)[i].formula

C17_HistoryListIsServedList ==
    (call.fn = "fetchHistory" /\ ret # <<>> /\ call.arg.data.k = "list")
      => /\ Len(historyList) = Len(call.arg.data.items)
         /\ \A i \in 1..Len(call.arg.data.items) :
               /\ historyList[i].id = call.arg.data.items[i].id
               /\ historyList[i].prediction[1].name
                    = call.arg.data.items[i].output_data.f.nama_senyawa

\* MaxListed entries served in an order that is not the order of their ids
\* have been stored.
C17_Witness ==
    /\ call.fn = "fetchHistory" /\ ret # <<>> /\ call.arg.k = "object"
    /\ Len(historyList) = MaxListed
    /\ historyList[1].id = 2 /\ historyList[2].id = MaxListed /\ historyList[MaxListed].id = 1
    /\ historyList[MaxListed].title = "3-O-Ethyl Ascorbic Acid"

\* C18: /history/{id} opened for an id that matches no entry of the list
\* renders a not-found outcome (the 404 message or "Data not found") and no
\* entry; opened for an id of the list it renders the entry with that id.
C18_DetailShowsRequestedEntryOrNotFound ==
    (call.fn = "HistoryWrapper" /\ ret # <<>>)
      => IF call.arg.id \in IdsOf(call.arg.list)
         THEN /\ ret[1].view = "detail"
              /\ Len(ret[1].data) = 1
              /\ ret[1].data[1].id = call.arg.id
              /\ \E i \in 1..Len(call.arg.list) : ret[1].data[1] = call.arg.list[i]
         ELSE /\ ret[1].view \in {"404", "Data not found"}
              /\ ret[1].data = <<>>

\* An id that matches none of MaxListed - 1 entries has been opened and the
\* 404 message is rendered.
C18_Witness ==
    /\ call.fn = "HistoryWrapper" /\ ret # <<>>
    /\ Len(call.arg.list) = MaxListed - 1
    /\ call.arg.id \notin IdsOf(call.arg.list)
    /\ call.arg.id <= MaxListed
    /\ ret[1].view = "404"

\* The steps a run may take: to the next stage in order, or from a working
\* stage to Failed.
StageSteps ==
    {<<"NotStarted", "Received">>, <<"Received", "Retrieving">>,
     <<"Retrieving", "Analyzing">>, <<"Analyzing", "Synthesizing">>,
     <<"Synthesizing", "Completed">>}
    \cup {<<s, "Failed">> : s \in {"Retrieving", "Analyzing", "Synthesizing"}}

C20_LoggedInHasToken == isLoggedIn => token # NoToken

----------------------------------------------------------------------------
(* C21..C28                                                                *)

\* A step in which an auth/login request is settled.
LoginRequestSettled == BagCardinality(loginReqs') < BagCardinality(loginReqs)

\* C21: the answer to a request to an authentication endpoint, a 401
\* included, never removes the stored token.
C21_AuthAnswerKeepsToken ==
    [][(LoginRequestSettled /\ token # NoToken) => token' # NoToken]_vars

\* C22: the prompt, result, history and detail pages are rendered only while
\* isLoggedIn is true, the result page only with a currentResult, and /login
\* and /register only while isLoggedIn is false.
C22_RouteGuard ==
    /\ route \in {HomeRoute, ResultRoute, HistoryRoute, DetailRoute} => isLoggedIn
    /\ route = ResultRoute => currentResult # <<>>
    /\ IsAuthPage(route) => ~isLoggedIn

\* A user with a result has been logged out and is on an authentication page.
C22_Witness ==
    /\ ~isLoggedIn /\ currentResult # <<>> /\ IsAuthPage(route)

\* A step in which fetchHistory handles the failure of request r.
FetchFailureHandled(r) ==
    /\ r.st # "ok"
    /\ CopiesIn(r, historyReqs') < CopiesIn(r, historyReqs)
    /\ BagCardinality(historyReqs') < BagCardinality(historyReqs)

\* The logged-out state after a step.
LoggedOutNext ==
    /\ token' = NoToken /\ lsUsername' = NoToken
    /\ ~isLoggedIn' /\ route' = LoginRoute

C24_LogoutFrame ==
    [][(isLoggedIn /\ ~isLoggedIn')
         => /\ token' = NoToken /\ lsUsername' = NoToken
            /\ isLanding' /\ route' = LoginRoute
            /\ currentResult' = currentResult /\ historyList' = historyList
            /\ entries' = entries
            /\ historyReqs' = historyReqs
                 => UNCHANGED <<isDeleting, deleteReqs, loginTimers>>]_vars

\* A user who had left landing mode and holds a result and a history list
\* has been logged out.
C24_Witness ==
    /\ ~isLoggedIn /\ token = NoToken /\ lsUsername = NoToken
    /\ isLanding /\ route = LoginRoute
    /\ currentResult # <<>> /\ historyList # <<>>

\* C25: while isLoading is true no further analyze request is started,
\* neither by the Generate button nor by Enter in the prompt field.
C25_NoAnalyzeWhileLoading ==
    [][isLoading => BagCardinality(analyzeReqs') <= BagCardinality(analyzeReqs)]_vars

\* C26: at most one delete request is in flight; from the confirmation of a
\* delete until it has settled (the refetch after a successful delete
\* included) isDeleting is true, so the Delete History button is disabled,
\* and the confirmation modal is closed.
C26_OneDeleteAtATime ==
    /\ BagCardinality(deleteReqs) <= 1
    /\ (deleteReqs # EmptyBag \/ \E r \in BagToSet(historyReqs) : r.origin = "delete")
          => isDeleting /\ ~showConfirm

\* A delete has been served and not yet settled while the detail page of the
\* entry is still on screen.
C26_Witness ==
    /\ route = DetailRoute /\ DetailView.view = "detail"
    /\ \E r \in BagToSet(deleteReqs) : r.st = "ok" /\ r.id = routeId

\* C27: a registration request is sent only when the username has 3 to 10
\* characters, the email contains '@' and '.', the password has 8 to 72
\* characters and the confirmation equals the password.
C27_RegisterOnlyValidForms ==
    (call.fn = "handleRegister" /\ ret # <<>> /\ ret[1].sent # <<>>)
      => /\ Len(call.arg.username) \in 3..10
         /\ HasChar(call.arg.email, "@") /\ HasChar(call.arg.email, ".")
         /\ Len(call.arg.password) \in 8..72
         /\ call.arg.confirmPassword = call.arg.password

\* C28: the request sent to auth/register carries the entered username as
\* full_name, the entered email as email and the entered password as password.
C28_RegisterBodyCarriesFields ==
    (call.fn = "handleRegister" /\ ret # <<>> /\ ret[1].sent # <<>>)
      => /\ ret[1].sent[1].url = RegisterUrl
         /\ ret[1].sent[1].body.full_name = StrVal(call.arg.username)
         /\ ret[1].sent[1].body.email = StrVal(call.arg.email)
         /\ ret[1].sent[1].body.password = StrVal(call.arg.password)

====
